---- MODULE Spec2Model ----
(***************************************************************************)
(* A model of the video data-loading path of the repository:               *)
(* databunch/dataset.py (VideoDataset, collate, init_worker).              *)
(*                                                                         *)
(* The dataset is a state machine: it is constructed once from its         *)
(* arguments and a metadata table, and is then accessed by position.       *)
(* Numbers that are floats in the program are kept as exact fractions:     *)
(* cut is CutNum / CutDen and a fractional keep is num / KeepDen, with     *)
(* denominators that are powers of two, so that the float products the     *)
(* program forms (class_size * keep, length * cut) are exact.              *)
(***************************************************************************)
EXTENDS Integers, Sequences, FiniteSets, TLC

(***************************************************************************)
(* Bounds of the model.                                                    *)
(***************************************************************************)
\* The longest metadata table read from disk.
MaxRows == 3
\* The largest integer keep: beyond every table.
MaxKeep == MaxRows + 1
\* The states the random-number generator can be in when __getitem__ is
\* entered; every draw of the call is a function of that state.
RngStates == {0, 1}

(***************************************************************************)
(* Program constants.                                                      *)
(***************************************************************************)
\* ia.PadToFixedSize(224, 224) / ia.CropToFixedSize(224, 224).
AugSize == 224
\* ia.Add((-25, 25)) and ia.AddToHueAndSaturation((-25, 25)).
Jitter == 25

(***************************************************************************)
(* Inputs.                                                                 *)
(***************************************************************************)
\* cut = num / CutDen: below 0, 0, inside (0, 1), 1, above 1.
CutDen == 2
CutNums == {-1, 0, 1, CutDen, CutDen + 1}
\* frame_size arguments; the job specs pass 224.
FrameSizes == {112, 224}
\* 'valid' is what the validation job spec passes.
Settings == {"train", "eval", "valid"}
\* keep: None, a fraction num / KeepDen in [0, 1), or an integer >= 1.
KeepDen == 4
NoKeep == [num |-> -1, den |-> 0]
Keeps ==
    {NoKeep}
        \cup {[num |-> k, den |-> KeepDen] : k \in 0..(KeepDen - 1)}
        \cup {[num |-> n, den |-> 1] : n \in 1..MaxKeep}
\* sampling_opts.num_segments.
SegmentCounts == {2}
\* Class ids and their label strings (one canonical label per class).
Lids == {0, 1}
LabelOf(lid) == IF lid = 0 THEN "Pushing something" ELSE "Dropping something"
\* The index label of the first row of a table: a default range index
\* starts at 0, an index of clip ids starts anywhere.
IndexBases == {0, 10}

(***************************************************************************)
(* The metadata table: a sequence of rows in table order.  Each row has    *)
(* its index label (unique in the table), its class (lid, also known as    *)
(* template_id), the class's label and the statistics of its clip.         *)
(***************************************************************************)
LengthOf(index) == 1 + 3 * (index % 3)
HeightOf(index) == IF index % 2 = 0 THEN 240 ELSE 100
WidthOf(index) == IF index % 2 = 0 THEN 427 ELSE 176

Row(index, lid) ==
    [index |-> index, lid |-> lid, template_id |-> lid, label |-> LabelOf(lid),
     length |-> LengthOf(index), height |-> HeightOf(index),
     width |-> WidthOf(index)]

\* hp.read_meta: any table of 1..MaxRows rows.
Tables ==
    UNION {
        {[p \in 1..n |-> Row(base + p - 1, f[p])] : f \in [1..n -> Lids], base \in IndexBases}
        : n \in 1..MaxRows}

(***************************************************************************)
(* Sequence helpers.                                                       *)
(***************************************************************************)
RECURSIVE SelectRows(_, _)
\* table[table['lid'] == lid]: the rows of a class, in table order.
SelectRows(table, lid) ==
    IF table = <<>> THEN <<>>
    ELSE IF Head(table).lid = lid
         THEN <<Head(table)>> \o SelectRows(Tail(table), lid)
         ELSE SelectRows(Tail(table), lid)

\* table.iloc[0:n] for n >= 0.
Iloc(table, n) == SubSeq(table, 1, IF n < Len(table) THEN n ELSE Len(table))

RECURSIVE Unique(_)
\* Series.unique(): the distinct values in order of first appearance.
Unique(s) ==
    IF s = <<>> THEN <<>>
    ELSE LET init == Unique(SubSeq(s, 1, Len(s) - 1))
             x == s[Len(s)]
         IN IF \E i \in 1..Len(init) : init[i] = x THEN init ELSE Append(init, x)

LidColumn(table) == [p \in 1..Len(table) |-> table[p].lid]

\* A rounding that takes ties up, as floor(x + 0.5) does.
RoundHalfUp(n, d) == (2 * n + d) \div (2 * d)

\* Python's round() of the float n / d (n >= 0, d > 0): to nearest, ties to even.
Round(n, d) ==
    LET q == n \div d
        r == n % d
    IN IF 2 * r < d THEN q
       ELSE IF 2 * r > d THEN q + 1
       ELSE IF q % 2 = 0 THEN q ELSE q + 1

(***************************************************************************)
(* The state of the program.                                               *)
(***************************************************************************)
VARIABLES
    phase,      \* "new" before __init__, "ready" after it, "failed" if it raised
    err,        \* the exception __init__ raised, or "none"
    metaRead,   \* whether hp.read_meta has been called
    args,       \* self.cut, self.frame_size, self.do, self.so
    loaded,     \* the table hp.read_meta returned (history: the program keeps only meta)
    meta,       \* self.meta
    lids,       \* self.lids
    lid2labels, \* self.lid2labels
    labels2lid, \* self.labels2lid
    aug_seq,    \* self.aug_seq
    last,       \* what __getitem__ returned (or raised), when it was the most recent call
    kept,       \* an earlier __getitem__ result of an eval dataset, held by an observer
    env,        \* the clips whose files cannot be read
    batch,      \* what get_batch returned (or raised), when it was the most recent call
    sampled,    \* one construction of a Video: what it was given, the frames it chose
    collated,   \* one call of collate: the batch it was given, what it returned
    workers,    \* the loader's worker processes: the generator of each
    stats,      \* _gather_dist_stats.main: the running statistics and what they pool
    logger,     \* an ExperimentLogger and what it has written
    unit        \* one construction of a Unit3D: its options, the layers it built

\* The dataset object and what its callers hold.
dataset == <<phase, err, metaRead, args, loaded, meta, lids, lid2labels, labels2lid,
             aug_seq, last, kept>>

\* What lies around the dataset object: get_batch, the Video, collate, the workers.
around == <<env, batch, sampled, collated, workers>>

\* The other programs of the repository: the statistics, the logger, the model.
elsewhere == <<stats, logger, unit>>

vars == <<phase, err, metaRead, args, loaded, meta, lids, lid2labels, labels2lid,
          aug_seq, last, kept, env, batch, sampled, collated, workers,
          stats, logger, unit>>

NoArgs == [cut |-> 0, frame_size |-> 0, setting |-> "", keep |-> NoKeep, num_segments |-> 0]
NoResult ==
    [item |-> -1, rng |-> -1, err |-> "", index |-> -1, indices |-> <<>>,
     frames |-> <<>>, label |-> -1, label_meta |-> -1]
NoBatch == [n |-> -1, rng |-> -1, err |-> "", drawn |-> <<>>, videos |-> <<>>, labels |-> <<>>]
NoSample ==
    [length |-> 0, cut |-> 0, setting |-> "", num_segments |-> 0, segment_size |-> 0,
     rng |-> -1, done |-> FALSE, indices |-> <<>>]
NoCollate == [batch |-> <<>>, done |-> FALSE, out |-> [err |-> ""]]
NoWorkers == <<>>
NoStats == [folds |-> -1]
NoLogger == [built |-> FALSE]
NoUnit == [done |-> FALSE]

\* None of the other programs has run.
Elsewhere ==
    /\ stats = NoStats
    /\ logger = NoLogger
    /\ unit = NoUnit

\* Nothing around the dataset has run.
Idle ==
    /\ env = {}
    /\ batch = NoBatch
    /\ sampled = NoSample
    /\ collated = NoCollate
    /\ workers = NoWorkers
    /\ Elsewhere

(***************************************************************************)
(* __init__: the lookups.                                                  *)
(***************************************************************************)
\* The positions of the first row of each class, as groupby('lid').head(1)
\* selects them.
HeadOfGroups(table) ==
    {p \in 1..Len(table) : \A q \in 1..(p - 1) : table[q].lid # table[p].lid}

\* self.meta.groupby('lid')['label'].head(1): the label column restricted to
\* the first row of each class.  head() keeps the rows' own index labels, so
\* the Series is keyed by the table's index, not by lid.
Lid2Labels(table) ==
    [i \in {table[p].index : p \in HeadOfGroups(table)} |->
        table[CHOOSE p \in HeadOfGroups(table) : table[p].index = i].label]

\* self.lid2labels.reset_index().set_index('label'): keyed by label, holding
\* the former index label of the row.
Labels2Lid(table) ==
    [l \in {table[p].label : p \in HeadOfGroups(table)} |->
        table[CHOOSE p \in HeadOfGroups(table) : table[p].label = l].index]

(***************************************************************************)
(* __init__: subsetting.                                                   *)
(***************************************************************************)
RECURSIVE ConcatClassesUntilEmpty(_, _, _)
\* A concatenation that ends at the first class left without rows.
ConcatClassesUntilEmpty(table, classes, keep) ==
    IF classes = <<>> THEN <<>>
    ELSE LET class_meta == SelectRows(table, Head(classes))
             cut_off == Round(Len(class_meta) * keep.num, keep.den)
         IN IF cut_off = 0 THEN <<>>
            ELSE Iloc(class_meta, cut_off)
                    \o ConcatClassesUntilEmpty(table, Tail(classes), keep)

RECURSIVE ConcatClasses(_, _, _)
\* The loop of _stratified_sample_meta over the classes, then pd.concat; its
\* verify_integrity finds no index label twice, the table's being unique.
ConcatClasses(table, classes, keep) ==
    IF classes = <<>> THEN <<>>
    ELSE LET class_meta == SelectRows(table, Head(classes))
             cut_off == Round(Len(class_meta) * keep.num, keep.den)
         IN Iloc(class_meta, cut_off) \o ConcatClasses(table, Tail(classes), keep)

StratifiedSampleMeta(table, keep) ==
    ConcatClasses(table, Unique(LidColumn(table)), keep)

\* The test with its upper end included: keep = 1 would count as a fraction.
KeepIsFractionOrOne(keep) == 0 <= keep.num /\ keep.num <= keep.den

\* 0 <= data_opts.keep < 1
KeepIsFraction(keep) == 0 <= keep.num /\ keep.num < keep.den

\* Lines 47-51: the table after the optional subsetting.
SubsetMeta(table, keep) ==
    IF keep = NoKeep THEN table
    ELSE IF KeepIsFraction(keep) THEN StratifiedSampleMeta(table, keep)
    ELSE Iloc(table, keep.num)

(***************************************************************************)
(* __init__: the augmentation sequence.                                    *)
(***************************************************************************)
Step(op, arg, position) == [op |-> op, arg |-> arg, position |-> position]

\* The eval branch without position='center': pad and crop fall back to the
\* augmenters' default, a drawn position.
ComposeAugSeqUnanchored(setting) ==
    IF setting = "train"
    THEN << Step("PadToFixedSize", AugSize, "uniform"),
            Step("CropToFixedSize", AugSize, "uniform"),
            Step("Fliplr", 50, "none"),
            Step("Flipud", 50, "none"),
            Step("Add", Jitter, "none"),
            Step("AddToHueAndSaturation", Jitter, "none") >>
    ELSE << Step("PadToFixedSize", AugSize, "uniform"),
            Step("CropToFixedSize", AugSize, "uniform") >>

ComposeAugSeq(setting) ==
    IF setting = "train"
    THEN << Step("PadToFixedSize", AugSize, "uniform"),
            Step("CropToFixedSize", AugSize, "uniform"),
            Step("Fliplr", 50, "none"),
            Step("Flipud", 50, "none"),
            Step("Add", Jitter, "none"),
            Step("AddToHueAndSaturation", Jitter, "none") >>
    ELSE << Step("PadToFixedSize", AugSize, "center"),
            Step("CropToFixedSize", AugSize, "center") >>

\* The range test with its lower end excluded.
CutAboveZero(cut) == 0 < cut /\ cut <= CutDen

\* The two assert statements that open __init__.
CutInRange(cut) == 0 <= cut /\ cut <= CutDen
SettingKnown(setting) == setting \in {"train", "eval"}

\* Before __init__ has run.
Unbuilt ==
    /\ phase = "new"
    /\ err = "none"
    /\ metaRead = FALSE
    /\ args = NoArgs
    /\ loaded = <<>>
    /\ meta = <<>>
    /\ lids = <<>>
    /\ lid2labels = <<>>
    /\ labels2lid = <<>>
    /\ aug_seq = <<>>
    /\ last = NoResult
    /\ kept = NoResult

Init == Unbuilt /\ Idle

\* VideoDataset.__init__(cut, frame_size, data_opts, sampling_opts), with
\* table the content of the file at data_opts.meta_path.
Construct(cut, frame_size, setting, keep, num_segments, table) ==
    /\ phase = "new"
    /\ args' = [cut |-> cut, frame_size |-> frame_size, setting |-> setting,
                keep |-> keep, num_segments |-> num_segments]
    /\ IF ~CutInRange(cut) \/ ~SettingKnown(setting)
       THEN /\ phase' = "failed"
            /\ err' = "AssertionError"
            /\ UNCHANGED <<metaRead, loaded, meta, lids, lid2labels, labels2lid, aug_seq>>
       ELSE /\ phase' = "ready"
            /\ err' = "none"
            /\ metaRead' = TRUE
            /\ loaded' = table
            /\ lids' = Unique(LidColumn(table))
            /\ lid2labels' = Lid2Labels(table)
            /\ labels2lid' = Labels2Lid(table)
            /\ meta' = SubsetMeta(table, keep)
            /\ aug_seq' = ComposeAugSeq(setting)
    /\ UNCHANGED <<last, kept>>
    /\ UNCHANGED around
    /\ UNCHANGED elsewhere

(***************************************************************************)
(* Video(meta, root, read_jpeg, cut, setting, num_segments): the frame     *)
(* sampler and the loader.                                                 *)
(***************************************************************************)
\* The eligible frames are [0, floor(length * cut)).
Eligible(length, cut) == (length * cut) \div CutDen

\* The draw for bin k of a generator entered in state rng.
BinDraw(rng, k) == (rng + k) % 2

\* A sampler whose bins include their upper end.
SampleIndicesInclusive(length, cut, setting, num_segments, rng) ==
    LET e == Eligible(length, cut)
        lo(k) == ((k - 1) * e) \div num_segments
        hi(k) == (k * e) \div num_segments
    IN [k \in 1..num_segments |->
            IF setting = "train"
            THEN IF BinDraw(rng, k) = 0 THEN lo(k) ELSE hi(k)
            ELSE ((2 * k - 1) * e) \div (2 * num_segments)]

\* One index per segment.  eval: the centre of each bin.  train: drawn in
\* each bin, the draw selecting the first or the last frame of the bin.
SampleIndices(length, cut, setting, num_segments, rng) ==
    LET e == Eligible(length, cut)
        lo(k) == ((k - 1) * e) \div num_segments
        hi(k) == (k * e) \div num_segments
    IN [k \in 1..num_segments |->
            IF setting = "train"
            THEN IF BinDraw(rng, k) = 0 \/ hi(k) <= lo(k) THEN lo(k) ELSE hi(k) - 1
            ELSE ((2 * k - 1) * e) \div (2 * num_segments)]

\* A raw frame as decoded: which frame of the clip, and its size.  The
\* remaining fields record what the augmenters do to it.
RawFrame(row, idx) ==
    [src |-> idx, layout |-> "HWC", range |-> 255,
     c |-> 3, h |-> row.height, w |-> row.width,
     pad |-> -1, crop |-> -1, fliplr |-> FALSE, flipud |-> FALSE, add |-> 0, hue |-> 0]

\* video.data after Video.__init__: the sampled frames, in sampling order.
Decode(row, indices) == [k \in 1..Len(indices) |-> RawFrame(row, indices[k])]

(***************************************************************************)
(* aug: the augmentation of one sample.                                    *)
(***************************************************************************)
\* The values a frozen (deterministic) sequence draws for its random
\* parameters; they are a function of the random state it was frozen with.
\* Positions are percentages of the free space, 50 being the centre.
ParamsOf(seed) ==
    [pad |-> 100 * (seed % 2),
     crop |-> 100 * ((seed + 1) % 2),
     fliplr |-> 25 + 50 * (seed % 2),
     flipud |-> 25 + 50 * ((seed \div 2 + seed) % 2),
     add |-> IF seed % 2 = 0 THEN -Jitter ELSE Jitter,
     hue |-> IF seed % 2 = 0 THEN Jitter ELSE -Jitter]

Max(a, b) == IF a > b THEN a ELSE b
Min(a, b) == IF a < b THEN a ELSE b
PositionOf(step, drawn) == IF step.position = "center" THEN 50 ELSE drawn

\* One augmenter of the sequence applied to one image.
ApplyStep(step, params, img) ==
    CASE step.op = "PadToFixedSize" ->
            [img EXCEPT !.h = Max(@, step.arg), !.w = Max(@, step.arg),
                        !.pad = PositionOf(step, params.pad)]
      [] step.op = "CropToFixedSize" ->
            [img EXCEPT !.h = Min(@, step.arg), !.w = Min(@, step.arg),
                        !.crop = PositionOf(step, params.crop)]
      [] step.op = "Fliplr" -> [img EXCEPT !.fliplr = params.fliplr < step.arg]
      [] step.op = "Flipud" -> [img EXCEPT !.flipud = params.flipud < step.arg]
      [] step.op = "Add" -> [img EXCEPT !.add = params.add]
      [] step.op = "AddToHueAndSaturation" -> [img EXCEPT !.hue = params.hue]

RECURSIVE AugmentImage(_, _, _)
\* det_aug_seq.augment_image(frame_data): the augmenters in sequence order.
AugmentImage(seq, params, img) ==
    IF seq = <<>> THEN img
    ELSE AugmentImage(Tail(seq), params, ApplyStep(Head(seq), params, img))

\* F.to_tensor: height x width x channel bytes become a channel x height x
\* width tensor of floats in [0, 1].
ToTensor(img) == [img EXCEPT !.layout = "CHW", !.range = 1]

\* The sequence left stochastic: every augment_image call moves the generator on.
AugPerFrame(seq, video_data, rng) ==
    [k \in 1..Len(video_data) |->
        ToTensor(AugmentImage(seq, ParamsOf(rng + k - 1), video_data[k]))]

\* aug(video_data): to_deterministic() freezes the sequence once, with the
\* generator's state, and every frame goes through the frozen sequence.
Aug(seq, video_data, rng) ==
    [k \in 1..Len(video_data) |-> ToTensor(AugmentImage(seq, ParamsOf(rng), video_data[k]))]

\* A label that carries the clip's id.
LabelDataFromIndex(row) == row.index

\* Label(video_meta).data
LabelData(row) == row.template_id

\* Label(video_meta).meta, named by the clip it describes.
LabelMeta(row) == row.index

\* The number of classes, where the number of rows is meant.
NumberOfClasses == Len(lids)

\* __len__
DatasetLen == Len(meta)

\* __getitem__(item) on a ready dataset, entered with the generator in state
\* rng: the pair it returns, or the IndexError of self.meta.iloc[item].
GetItemResult(item, rng) ==
    IF item >= Len(meta)
    THEN [NoResult EXCEPT !.item = item, !.rng = rng, !.err = "IndexError"]
    ELSE LET row == meta[item + 1]
             indices == SampleIndices(row.length, args.cut, args.setting,
                                      args.num_segments, rng)
         IN [item |-> item, rng |-> rng, err |-> "none", index |-> row.index,
             indices |-> indices,
             frames |-> Aug(aug_seq, Decode(row, indices), rng),
             label |-> LabelData(row), label_meta |-> LabelMeta(row)]

\* One access.  The observer of an eval dataset holds on to the first result.
GetItem(item, rng) ==
    /\ phase = "ready"
    /\ last' = GetItemResult(item, rng)
    /\ kept' = IF kept = NoResult /\ args.setting = "eval" THEN last' ELSE kept
    /\ UNCHANGED <<phase, err, metaRead, args, loaded, meta, lids, lid2labels,
                   labels2lid, aug_seq>>
    /\ UNCHANGED around
    /\ UNCHANGED elsewhere

\* The caller constructs the dataset once, with any arguments and any file.
DoConstruct ==
    /\ phase = "new"
    /\ \E cut \in CutNums, frame_size \in FrameSizes, setting \in Settings,
          keep \in Keeps, num_segments \in SegmentCounts, table \in Tables :
            Construct(cut, frame_size, setting, keep, num_segments, table)

\* The loader accesses any position, with the generator in any state.
DoGetItem ==
    /\ phase = "ready"
    /\ \E item \in 0..MaxRows, rng \in RngStates : GetItem(item, rng)

Next == DoConstruct \/ DoGetItem

Spec == Init /\ [][Next]_vars

(***************************************************************************)
(* Vocabulary of the properties.                                           *)
(***************************************************************************)
Ready == phase = "ready"
KeepGiven == args.keep # NoKeep
FractionKeep == KeepGiven /\ args.keep.den = KeepDen
IntegerKeep == KeepGiven /\ args.keep.den = 1

\* The positions of the rows of a class in a table.
ClassPositions(table, lid) == {p \in 1..Len(table) : table[p].lid = lid}
ClassSize(table, lid) == Cardinality(ClassPositions(table, lid))
ClassesOf(table) == {table[p].lid : p \in 1..Len(table)}

\* r is n / d rounded to the nearest integer, a tie going to the even one.
IsNearestEven(r, n, d) ==
    /\ 2 * (r * d - n) <= d
    /\ 2 * (n - r * d) <= d
    /\ (2 * (r * d - n) = d \/ 2 * (n - r * d) = d) => r % 2 = 0

\* round(class_size * keep) for the class lid of the loaded table.
Quota(lid) ==
    CHOOSE r \in 0..Len(loaded) :
        IsNearestEven(r, ClassSize(loaded, lid) * args.keep.num, args.keep.den)

\* The positions in the loaded table of the first n rows of a class.
FirstOfClass(lid, n) ==
    {p \in ClassPositions(loaded, lid) :
        Cardinality({q \in ClassPositions(loaded, lid) : q <= p}) <= n}

\* The position in the loaded table of the row with an index label.
LoadedPosition(index) == CHOOSE p \in 1..Len(loaded) : loaded[p].index = index

RECURSIVE SumOfQuotas(_)
SumOfQuotas(classes) ==
    IF classes = {} THEN 0
    ELSE LET lid == CHOOSE x \in classes : TRUE
         IN Quota(lid) + SumOfQuotas(classes \ {lid})

\* C1: with keep a fraction in [0, 1), the retained rows of every class are
\* exactly the first round(class_size * keep) rows of that class of the
\* loaded table, each once and in their table order.
C1_StratifiedHead ==
    (Ready /\ FractionKeep) =>
        \A lid \in ClassesOf(loaded) :
            /\ {meta[p].index : p \in ClassPositions(meta, lid)}
                   = {loaded[p].index : p \in FirstOfClass(lid, Quota(lid))}
            /\ ClassSize(meta, lid) = Cardinality(FirstOfClass(lid, Quota(lid)))
            /\ \A a, b \in ClassPositions(meta, lid) :
                   a < b => LoadedPosition(meta[a].index) < LoadedPosition(meta[b].index)
            /\ \A p \in ClassPositions(meta, lid) :
                   meta[p] = loaded[LoadedPosition(meta[p].index)]

\* A class of two rows whose product with keep is a tie (2 * 1/4 = 0.5 or
\* 2 * 3/4 = 1.5), beside a second class.
C1_Witness ==
    /\ Ready /\ FractionKeep
    /\ Cardinality(ClassesOf(loaded)) = 2
    /\ \E lid \in ClassesOf(loaded) :
           /\ ClassSize(loaded, lid) = 2
           /\ 2 * ((2 * args.keep.num) % args.keep.den) = args.keep.den
           /\ ClassSize(meta, lid) = 2

\* C2: with keep an integer >= 1 (keep = 1 included), the retained table is
\* the first keep rows of the loaded table, all of it when keep exceeds its
\* length, whatever the rows' classes.
C2_IntegerHead ==
    (Ready /\ IntegerKeep) =>
        /\ Len(meta) = (IF args.keep.num < Len(loaded) THEN args.keep.num ELSE Len(loaded))
        /\ \A p \in 1..Len(meta) : meta[p] = loaded[p]

\* keep = 1 on a table of two classes: one row stays.
C2_Witness ==
    /\ Ready /\ IntegerKeep
    /\ args.keep.num = 1
    /\ Cardinality(ClassesOf(loaded)) = 2
    /\ Len(meta) = 1

\* C3: len(dataset) is the number of retained rows: the whole table without
\* keep, the sum over the classes of round(class_size * keep) with a
\* fraction, the truncated count with an integer; no row is retained twice,
\* and an access succeeds exactly at the positions below len(dataset), where
\* it reads the retained row at that position.
C3_Length ==
    Ready =>
        /\ ~KeepGiven => DatasetLen = Len(loaded)
        /\ FractionKeep => DatasetLen = SumOfQuotas(ClassesOf(loaded))
        /\ IntegerKeep =>
               DatasetLen = (IF args.keep.num < Len(loaded) THEN args.keep.num ELSE Len(loaded))
        /\ \A a, b \in 1..Len(meta) : meta[a].index = meta[b].index => a = b
        /\ last # NoResult =>
               /\ last.err = "none" <=> last.item < DatasetLen
               /\ last.err = "none" => last.index = meta[last.item + 1].index

\* An access at the last position of a stratified table of two classes that
\* lost rows, and whose length is not the rounding of the whole table's share.
C3_Witness ==
    /\ Ready /\ FractionKeep
    /\ Cardinality(ClassesOf(loaded)) = 2
    /\ 0 < DatasetLen /\ DatasetLen < Len(loaded)
    /\ ~IsNearestEven(DatasetLen, Len(loaded) * args.keep.num, args.keep.den)
    /\ last.err = "none" /\ last.item = DatasetLen - 1

\* C4: for every row of the table, labels2lid[label] is the row's class id
\* and lid2labels[lid] is the row's label.
C4_LookupsKeyedByClass ==
    Ready =>
        \A p \in 1..Len(loaded) :
            /\ loaded[p].lid \in DOMAIN lid2labels
            /\ lid2labels[loaded[p].lid] = loaded[p].label
            /\ loaded[p].label \in DOMAIN labels2lid
            /\ labels2lid[loaded[p].label] = loaded[p].lid

\* C5: after construction lids, and the keys of the class-id lookup, are the
\* class ids of the retained table.
C5_LidsOfRetained ==
    Ready =>
        /\ {lids[i] : i \in 1..Len(lids)} = ClassesOf(meta)
        /\ DOMAIN lid2labels = ClassesOf(meta)

CutOutside == args.cut < 0 \/ args.cut > CutDen
SettingOutside == args.setting # "train" /\ args.setting # "eval"

\* C6 as stated: a cut outside [0, 1] or a setting outside {train, eval}
\* fails with ConfigurationError before the table is read; otherwise neither
\* check fails.
C6_ConfigurationError ==
    phase # "new" =>
        /\ (CutOutside \/ SettingOutside) =>
               phase = "failed" /\ err = "ConfigurationError" /\ ~metaRead
        /\ ~(CutOutside \/ SettingOutside) => phase = "ready" /\ err = "none"

\* C6 as amended: a cut outside [0, 1] or a setting outside {train, eval}
\* fails construction with the AssertionError of an assert statement, before
\* the table is read and with no dataset built; a cut in [0, 1] with a
\* setting in {train, eval} passes both checks.
C6_AssertionError ==
    phase # "new" =>
        /\ (CutOutside \/ SettingOutside) =>
               /\ phase = "failed" /\ err = "AssertionError" /\ ~metaRead
               /\ loaded = <<>> /\ meta = <<>> /\ aug_seq = <<>>
        /\ ~(CutOutside \/ SettingOutside) =>
               phase = "ready" /\ err = "none" /\ metaRead

\* A train dataset refused for its cut alone.
C6_Witness ==
    phase = "failed" /\ args.setting = "train" /\ args.cut > CutDen

\* C7: a dataset constructed with setting 'valid' is built, with the fixed
\* centre-anchored sequence of an eval dataset.
C7_ValidIsEval ==
    (phase # "new" /\ args.setting = "valid") =>
        /\ phase = "ready"
        /\ aug_seq = << Step("PadToFixedSize", AugSize, "center"),
                        Step("CropToFixedSize", AugSize, "center") >>

\* The parameters an augmented frame was given.
ParamsIn(frame) ==
    <<frame.pad, frame.crop, frame.fliplr, frame.flipud, frame.add, frame.hue>>

\* C8: one __getitem__ call returns one tensor per decoded frame, in frame
\* order, and all of them were given the same crop and pad position, flip
\* decisions, brightness and hue offsets.
C8_OneDrawPerSample ==
    (Ready /\ last.err = "none") =>
        /\ Len(last.frames) = Len(last.indices)
        /\ \A k \in 1..Len(last.frames) :
               last.frames[k].src = last.indices[k] /\ last.frames[k].layout = "CHW"
        /\ \A j, k \in 1..Len(last.frames) :
               ParamsIn(last.frames[j]) = ParamsIn(last.frames[k])

\* A train sample of two different frames, flipped and padded or cropped at a
\* drawn position.
C8_Witness ==
    /\ Ready /\ args.setting = "train" /\ last.err = "none"
    /\ Len(last.frames) = 2
    /\ last.frames[1].src # last.frames[2].src
    /\ last.frames[1].fliplr
    /\ last.frames[1].crop # 50

C10_FrameSize ==
    (Ready /\ last.err = "none") =>
        \A k \in 1..Len(last.frames) :
            last.frames[k].h = args.frame_size /\ last.frames[k].w = args.frame_size


(***************************************************************************)
(* The Video as __getitem__ constructs it.                                 *)
(***************************************************************************)
\* The lengths of clips and the sampling options the construction is tried with.
MaxLength == 5
MaxSegments == 4
SegmentSizes == {1, 2}

\* The call of lines 80-81: of the sampling options so, the Video is given
\* num_segments and nothing else.
VideoIndices(length, cut, setting, so, rng) ==
    SampleIndices(length, cut, setting, so.num_segments, rng)

\* Any clip, any cut in [0, 1], either setting, any sampling options.
InitSampler ==
    /\ Unbuilt
    /\ env = {}
    /\ batch = NoBatch
    /\ collated = NoCollate
    /\ workers = NoWorkers
    /\ Elsewhere
    /\ sampled \in [length : 1..MaxLength, cut : 0..CutDen, setting : {"train", "eval"},
                    num_segments : 1..MaxSegments, segment_size : SegmentSizes,
                    rng : RngStates, done : {FALSE}, indices : {<<>>}]

\* The Video is constructed and chooses its frames.
TakeVideo ==
    /\ ~sampled.done
    /\ sampled.length > 0
    /\ sampled' = [sampled EXCEPT
                     !.done = TRUE,
                     !.indices = VideoIndices(sampled.length, sampled.cut, sampled.setting,
                                              [num_segments |-> sampled.num_segments,
                                               segment_size |-> sampled.segment_size],
                                              sampled.rng)]
    /\ UNCHANGED <<dataset, env, batch, collated, workers, elsewhere>>

SpecSampler == InitSampler /\ [][TakeVideo]_vars

\* C11: for every num_segments > 0 and segment_size >= 1, the Video that
\* __getitem__ constructs holds exactly num_segments * segment_size frames.
C11_FrameCount ==
    sampled.done =>
        Len(sampled.indices) = sampled.num_segments * sampled.segment_size

\* The frames a Video may choose from: positions 0 .. floor(length * cut) - 1.
EligibleOf(s) == Eligible(s.length, s.cut)
InEligible(s) == \A k \in 1..Len(s.indices) : 0 <= s.indices[k] /\ s.indices[k] < EligibleOf(s)

\* C12 as stated: for every cut in [0, 1], every length >= 1 and every
\* num_segments > 0, in either setting, the sampler returns one index per
\* segment, and every index idx satisfies 0 <= idx < floor(length * cut).
C12_InRangeForEveryCut ==
    sampled.done =>
        /\ Len(sampled.indices) = sampled.num_segments
        /\ InEligible(sampled)

\* C12: whenever floor(length * cut) >= 1, in either setting and also when
\* the clip is shorter than num_segments, the sampler returns one index per
\* segment and every index idx satisfies 0 <= idx < floor(length * cut);
\* indices may repeat.
C12_InRange ==
    (sampled.done /\ EligibleOf(sampled) >= 1) =>
        /\ Len(sampled.indices) = sampled.num_segments
        /\ InEligible(sampled)

\* A clip of one frame sampled in four segments: the same index four times.
C12_Witness ==
    /\ sampled.done
    /\ sampled.length = 1
    /\ sampled.num_segments = MaxSegments
    /\ EligibleOf(sampled) = 1
    /\ sampled.indices = [k \in 1..MaxSegments |-> 0]


(***************************************************************************)
(* collate.                                                                *)
(***************************************************************************)
\* The batches collate is tried with: up to MaxBatch samples of up to
\* MaxFrames frames each.
MaxBatch == 2
MaxFrames == 2

\* A frame tensor as aug returns it: its shape (C, H, W) and, for its
\* content, the clip and the position it came from.
FrameTensor(index, k, size) ==
    [shape |-> <<3, size, size>>, data |-> [clip |-> index, src |-> k]]

\* A (Video, Label) pair as __getitem__ returns it.
Pair(index, frames, size) ==
    [video |-> [meta |-> index,
                data |-> [k \in 1..frames |-> FrameTensor(index, k, size)]],
     label |-> [meta |-> index, data |-> LabelData(Row(index, index % 2))]]

Pairs == {Pair(index, frames, size) :
            index \in {10, 11}, frames \in 0..MaxFrames, size \in FrameSizes}

BatchesOf(n) == [1..n -> Pairs]

NoTensor == [ok |-> FALSE, shape |-> <<>>, data |-> <<>>]

\* A stack that takes the shape of its first tensor for the shape of all.
StackUnchecked(tensors) ==
    IF tensors = <<>>
    THEN NoTensor
    ELSE [ok |-> TRUE,
          shape |-> <<Len(tensors)>> \o tensors[1].shape,
          data |-> [j \in 1..Len(tensors) |-> tensors[j].data]]

\* th.stack(tensors, dim=0): a new leading dimension; a RuntimeError for an
\* empty list and for tensors that differ in shape.
Stack(tensors) ==
    IF tensors = <<>> \/ \E j \in 1..Len(tensors) : tensors[j].shape # tensors[1].shape
    THEN NoTensor
    ELSE [ok |-> TRUE,
          shape |-> <<Len(tensors)>> \o tensors[1].shape,
          data |-> [j \in 1..Len(tensors) |-> tensors[j].data]]

\* th.tensor(list, dtype=th.int64)
Int64Tensor(list) == [shape |-> <<Len(list)>>, dtype |-> "int64", data |-> list]

NoCollated(error) ==
    [err |-> error, videos_data |-> NoTensor, labels_data |-> Int64Tensor(<<>>),
     videos |-> <<>>, labels |-> <<>>]

\* A collate that stacks the samples along the second dimension.
CollateFramesFirst(b) ==
    IF b = <<>>
    THEN NoCollated("ValueError")
    ELSE LET per_video == [j \in 1..Len(b) |-> Stack(b[j].video.data)]
             frames == IF per_video[1].ok THEN per_video[1].shape[1] ELSE 0
         IN IF \E j \in 1..Len(b) : ~per_video[j].ok \/ per_video[j].shape # per_video[1].shape
            THEN NoCollated("RuntimeError")
            ELSE [err |-> "none",
                  videos_data |->
                      [ok |-> TRUE,
                       shape |-> <<frames, Len(b)>> \o Tail(per_video[1].shape),
                       data |-> [k \in 1..frames |->
                                    [j \in 1..Len(b) |-> per_video[j].data[k]]]],
                  labels_data |-> Int64Tensor([j \in 1..Len(b) |-> b[j].label.data]),
                  videos |-> [j \in 1..Len(b) |-> b[j].video],
                  labels |-> [j \in 1..Len(b) |-> b[j].label]]

\* collate(batch): what it returns, or the error it raises.  zip(*batch)
\* cannot be unpacked for an empty batch; each video's frames are stacked,
\* then the videos.
Collate(b) ==
    IF b = <<>>
    THEN NoCollated("ValueError")
    ELSE LET per_video == [j \in 1..Len(b) |-> Stack(b[j].video.data)]
             videos_data == IF \E j \in 1..Len(b) : ~per_video[j].ok
                            THEN NoTensor
                            ELSE Stack(per_video)
         IN IF ~videos_data.ok
            THEN NoCollated("RuntimeError")
            ELSE [err |-> "none",
                  videos_data |-> videos_data,
                  labels_data |-> Int64Tensor([j \in 1..Len(b) |-> b[j].label.data]),
                  videos |-> [j \in 1..Len(b) |-> b[j].video],
                  labels |-> [j \in 1..Len(b) |-> b[j].label]]

\* The loader hands collate any batch.
InitCollate ==
    /\ Unbuilt
    /\ env = {}
    /\ batch = NoBatch
    /\ sampled = NoSample
    /\ workers = NoWorkers
    /\ Elsewhere
    /\ \E n \in 0..MaxBatch : \E b \in BatchesOf(n) :
            collated = [batch |-> b, done |-> FALSE, out |-> NoCollated("")]

DoCollate ==
    /\ ~collated.done
    /\ collated' = [collated EXCEPT !.done = TRUE, !.out = Collate(collated.batch)]
    /\ UNCHANGED <<dataset, env, batch, sampled, workers, elsewhere>>

SpecCollate == InitCollate /\ [][DoCollate]_vars


\* The samples of a batch agree: as many frames in each, at least one, and
\* one shape (C, H, W) for every frame.
Uniform(b) ==
    /\ b # <<>>
    /\ Len(b[1].video.data) >= 1
    /\ \A j \in 1..Len(b) :
        /\ Len(b[j].video.data) = Len(b[1].video.data)
        /\ \A k \in 1..Len(b[j].video.data) :
                b[j].video.data[k].shape = b[1].video.data[1].shape

\* Two samples of a batch disagree on the number of frames or on the size
\* of a frame.
Disagree(b) ==
    \E i, j \in 1..Len(b) :
        \/ Len(b[i].video.data) # Len(b[j].video.data)
        \/ \E k \in 1..Len(b[i].video.data), l \in 1..Len(b[j].video.data) :
                b[i].video.data[k].shape # b[j].video.data[l].shape

\* C13: collate on B (Video, Label) pairs whose videos hold T frame tensors
\* of shape (C, H, W) each returns a video tensor of shape (B, T, C, H, W),
\* an int64 label tensor of shape (B,) and the original Video and Label
\* objects; row j of both tensors comes from the j-th pair, its frames in
\* the sample's own order.
C13_Collated ==
    (collated.done /\ Uniform(collated.batch)) =>
        LET b == collated.batch
            out == collated.out
        IN /\ out.err = "none"
           /\ out.videos_data.shape =
                <<Len(b), Len(b[1].video.data)>> \o b[1].video.data[1].shape
           /\ out.labels_data.shape = <<Len(b)>>
           /\ out.labels_data.dtype = "int64"
           /\ Len(out.videos) = Len(b)
           /\ Len(out.labels) = Len(b)
           /\ \A j \in 1..Len(b) :
                /\ out.videos_data.data[j] =
                        [k \in 1..Len(b[j].video.data) |-> b[j].video.data[k].data]
                /\ out.labels_data.data[j] = b[j].label.data
                /\ out.videos[j] = b[j].video
                /\ out.labels[j] = b[j].label

\* Two different clips of two frames each were collated.
C13_Witness ==
    /\ collated.done
    /\ Uniform(collated.batch)
    /\ Len(collated.batch) = 2
    /\ Len(collated.batch[1].video.data) = 2
    /\ collated.batch[1].video.meta # collated.batch[2].video.meta
    /\ collated.out.videos_data.shape = <<2, 2, 3, AugSize, AugSize>>

\* collate returned no batch.
NothingCollated ==
    /\ ~collated.out.videos_data.ok
    /\ collated.out.videos = <<>>
    /\ collated.out.labels = <<>>

\* C14 as stated: if two samples of a batch disagree on frame count or
\* spatial size, collate fails with ShapeMismatchError and returns no batch.
C14_ShapeMismatchError ==
    (collated.done /\ Disagree(collated.batch)) =>
        /\ collated.out.err = "ShapeMismatchError"
        /\ NothingCollated

\* C14: if two samples of a batch disagree on frame count or spatial size,
\* collate fails with the RuntimeError of th.stack and returns no batch; it
\* never pads or truncates.
C14_RuntimeError ==
    (collated.done /\ Disagree(collated.batch)) =>
        /\ collated.out.err = "RuntimeError"
        /\ NothingCollated

\* Two samples of as many frames, of different spatial size, were refused.
C14_Witness ==
    /\ collated.done
    /\ Len(collated.batch) = 2
    /\ Len(collated.batch[1].video.data) = 1
    /\ Len(collated.batch[2].video.data) = 1
    /\ collated.batch[1].video.data[1].shape # collated.batch[2].video.data[1].shape
    /\ collated.out.err = "RuntimeError"


(***************************************************************************)
(* Access to a constructed dataset: __getitem__ and get_batch, with files  *)
(* that may be unreadable.                                                 *)
(***************************************************************************)
\* The state __init__ leaves behind when it succeeds.
Built(cut, frame_size, setting, keep, num_segments, table) ==
    /\ phase = "ready"
    /\ err = "none"
    /\ metaRead = TRUE
    /\ args = [cut |-> cut, frame_size |-> frame_size, setting |-> setting,
               keep |-> keep, num_segments |-> num_segments]
    /\ loaded = table
    /\ lids = Unique(LidColumn(table))
    /\ lid2labels = Lid2Labels(table)
    /\ labels2lid = Labels2Lid(table)
    /\ meta = SubsetMeta(table, keep)
    /\ aug_seq = ComposeAugSeq(setting)
    /\ last = NoResult
    /\ kept = NoResult

\* No subsetting, a stratified subset, the first two rows.
AccessKeeps == {NoKeep, [num |-> KeepDen - 1, den |-> KeepDen], [num |-> 2, den |-> 1]}

\* The tables whose index labels are not the positions of their rows.
AccessTables == {table \in Tables : table[1].index # 0}

\* The sets of unreadable clips: none, or one clip of the table.
BadSets(table) == {{}} \cup {{table[p].index} : p \in 1..Len(table)}

InitAccess ==
    /\ \E setting \in {"train", "eval"}, keep \in AccessKeeps, table \in AccessTables :
            /\ Built(CutDen, AugSize, setting, keep, 2, table)
            /\ env \in BadSets(table)
    /\ batch = NoBatch
    /\ sampled = NoSample
    /\ collated = NoCollate
    /\ workers = NoWorkers
    /\ Elsewhere

\* __getitem__(item) when the files of the clips in bad cannot be decoded:
\* the Video constructor raises and nothing in __getitem__ catches it.
GetItemOutcome(item, rng, bad) ==
    IF item < Len(meta) /\ meta[item + 1].index \in bad
    THEN [NoResult EXCEPT !.item = item, !.rng = rng, !.err = "MediaReadError",
                          !.index = meta[item + 1].index]
    ELSE GetItemResult(item, rng)

\* The position of an index label in the table as it was read.
GetLocInLoaded(i) == (CHOOSE p \in 1..Len(loaded) : loaded[p].index = i) - 1

\* self.meta.index.get_loc(i)
GetLoc(i) == (CHOOSE p \in 1..Len(meta) : meta[p].index = i) - 1

\* self.meta.sample(n=n), n <= len(self.meta): n different rows, here the n
\* rows that follow a drawn row, cyclically.  The index labels, in order.
SampleOf(n, start) ==
    [j \in 1..n |-> meta[((start + j - 2) % Len(meta)) + 1].index]

\* The state of the generator when the j-th sample of a batch is built.
RngAt(rng, j) == (rng + j - 1) % Cardinality(RngStates)

\* The Video and the Label of a pair __getitem__ returned.
VideoOf(result) ==
    [meta |-> result.index, item |-> result.item, indices |-> result.indices,
     data |-> result.frames]
LabelOfPair(result) == [meta |-> result.label_meta, data |-> result.label]

\* A get_batch that leaves out the rows it cannot read.
GetBatchSkipping(n, start, rng, bad) ==
    IF n > Len(meta)
    THEN [NoBatch EXCEPT !.n = n, !.rng = rng, !.err = "ValueError"]
    ELSE LET drawn == SampleOf(n, start)
             got == [j \in 1..n |-> GetItemOutcome(GetLoc(drawn[j]), RngAt(rng, j), bad)]
             read == SelectSeq(got, LAMBDA g : g.err = "none")
         IN [n |-> n, rng |-> rng, err |-> "none", drawn |-> drawn,
             videos |-> [j \in 1..Len(read) |-> VideoOf(read[j])],
             labels |-> [j \in 1..Len(read) |-> LabelOfPair(read[j])]]

\* get_batch(n): the two lists it returns, or the error that ends it: the
\* ValueError of sample for n > len(self.meta), or whatever self[iloc] raises.
GetBatchResult(n, start, rng, bad) ==
    IF n > Len(meta)
    THEN [NoBatch EXCEPT !.n = n, !.rng = rng, !.err = "ValueError"]
    ELSE LET drawn == SampleOf(n, start)
             got == [j \in 1..n |-> GetItemOutcome(GetLoc(drawn[j]), RngAt(rng, j), bad)]
             failed == {j \in 1..n : got[j].err # "none"}
         IN IF failed # {}
            THEN [NoBatch EXCEPT !.n = n, !.rng = rng, !.drawn = drawn,
                     !.err = got[CHOOSE j \in failed : \A k \in failed : j <= k].err]
            ELSE [n |-> n, rng |-> rng, err |-> "none", drawn |-> drawn,
                  videos |-> [j \in 1..n |-> VideoOf(got[j])],
                  labels |-> [j \in 1..n |-> LabelOfPair(got[j])]]

\* One __getitem__ by the loader.
AccessItem(item, rng) ==
    /\ phase = "ready"
    /\ last' = GetItemOutcome(item, rng, env)
    /\ batch' = NoBatch
    /\ UNCHANGED <<phase, err, metaRead, args, loaded, meta, lids, lid2labels,
                   labels2lid, aug_seq, kept, env, sampled, collated, workers,
                   stats, logger, unit>>

\* A get_batch that keeps the sample it drew as the table.
GetBatchInPlace(n, start, rng) ==
    /\ phase = "ready"
    /\ batch' = GetBatchResult(n, start, rng, env)
    /\ last' = NoResult
    /\ meta' = IF n > Len(meta) THEN meta
               ELSE [j \in 1..n |-> meta[GetLoc(SampleOf(n, start)[j]) + 1]]
    /\ UNCHANGED <<phase, err, metaRead, args, loaded, lids, lid2labels,
                   labels2lid, aug_seq, kept, env, sampled, collated, workers,
                   stats, logger, unit>>

\* One get_batch(n).  Its videos and labels are local lists: of the object,
\* nothing is written.
GetBatch(n, start, rng) ==
    /\ phase = "ready"
    /\ batch' = GetBatchResult(n, start, rng, env)
    /\ last' = NoResult
    /\ UNCHANGED <<phase, err, metaRead, args, loaded, meta, lids, lid2labels,
                   labels2lid, aug_seq, kept, env, sampled, collated, workers,
                   stats, logger, unit>>

DoAccessItem ==
    /\ phase = "ready"
    /\ \E item \in 0..MaxRows, rng \in RngStates : AccessItem(item, rng)

DoGetBatch ==
    /\ phase = "ready"
    /\ \E n \in 0..MaxBatch, start \in 1..Len(meta), rng \in RngStates :
            GetBatch(n, start, rng)

NextAccess == DoAccessItem \/ DoGetBatch

SpecAccess == InitAccess /\ [][NextAccess]_vars


\* The position in the retained table of the row with an index label, from 1.
PositionIn(table, i) == CHOOSE p \in 1..Len(table) : table[p].index = i

\* get_batch was the most recent call, __getitem__ was.
BatchCalled == batch.n >= 0
ItemCalled == last.item >= 0

\* C15: if decoding fails while __getitem__(i) constructs the Video, the
\* error propagates out unchanged: no (Video, Label) pair is returned, no
\* other row is tried in its place, and a get_batch that drew the row ends
\* with the same error and returns no partial lists.
C15_DecodeErrorPropagates ==
    /\ (ItemCalled /\ last.item < Len(meta) /\ meta[last.item + 1].index \in env) =>
            /\ last.err = "MediaReadError"
            /\ last.index = meta[last.item + 1].index
            /\ last.frames = <<>>
            /\ last.label = NoResult.label
    /\ (BatchCalled /\ \E j \in 1..Len(batch.drawn) : batch.drawn[j] \in env) =>
            /\ batch.err = "MediaReadError"
            /\ batch.videos = <<>>
            /\ batch.labels = <<>>

\* A batch of two whose second row could not be read, the first one could.
C15_Witness ==
    /\ BatchCalled
    /\ batch.n = 2
    /\ batch.err = "MediaReadError"
    /\ Len(batch.drawn) = 2
    /\ batch.drawn[1] \notin env
    /\ batch.drawn[2] \in env
    /\ batch.videos = <<>>

\* C16: get_batch(n) with n <= len(dataset) returns two parallel lists of
\* length n; each (videos[j], labels[j]) is what __getitem__ returns at the
\* position, in the retained table, of one row drawn from the retained table
\* whatever its class, the Video and the Label describing that same row.
C16_BatchOfRetainedRows ==
    (BatchCalled /\ batch.n <= Len(meta)) =>
        /\ Len(batch.drawn) = batch.n
        /\ \A j \in 1..batch.n : \E p \in 1..Len(meta) : meta[p].index = batch.drawn[j]
        /\ \A j, k \in 1..batch.n : j # k => batch.drawn[j] # batch.drawn[k]
        /\ (\A j \in 1..batch.n : batch.drawn[j] \notin env) =>
            /\ batch.err = "none"
            /\ Len(batch.videos) = batch.n
            /\ Len(batch.labels) = batch.n
            /\ \A j \in 1..batch.n :
                LET p == PositionIn(meta, batch.drawn[j])
                IN /\ batch.videos[j].item = p - 1
                   /\ batch.videos[j].meta = meta[p].index
                   /\ batch.labels[j].meta = meta[p].index
                   /\ batch.labels[j].data = meta[p].template_id
                   /\ Len(batch.videos[j].data) = args.num_segments
                   /\ \A f \in 1..Len(batch.videos[j].data) :
                        batch.videos[j].data[f].src = batch.videos[j].indices[f]

\* A batch of two from a stratified subset, one row of which stands at
\* another position in the retained table than in the table read.
C16_Witness ==
    /\ BatchCalled
    /\ FractionKeep
    /\ batch.n = 2
    /\ batch.err = "none"
    /\ Len(batch.videos) = 2
    /\ batch.videos[1].meta # batch.videos[2].meta
    /\ \E j \in 1..2 :
            PositionIn(loaded, batch.drawn[j]) # PositionIn(meta, batch.drawn[j])

\* C18: after construction, no __getitem__, aug, get_batch or __len__ call
\* changes meta, lids, lid2labels, labels2lid, cut, frame_size or the option
\* records; an access writes only to the Video it has just constructed.
C18_AccessWritesNothing ==
    [][Ready => UNCHANGED <<meta, lids, lid2labels, labels2lid, args, aug_seq, loaded>>]_vars

\* A batch has been returned by a dataset that has kept a part of its table.
C18_Witness ==
    /\ BatchCalled
    /\ batch.err = "none"
    /\ batch.n >= 1
    /\ KeepGiven
    /\ Len(meta) < Len(loaded)


(***************************************************************************)
(* The workers of a loader.                                                *)
(***************************************************************************)
\* The loader starts workers 0 .. NumWorkers - 1; each draws up to MaxDraws
\* numbers.
NumWorkers == 3
MaxDraws == 3
WorkerIds == 0..(NumWorkers - 1)

\* The seed of the generator a worker inherits from the loader's process.
ParentSeed == -1

\* A hook that gives every worker one seed.
WorkerSeedFixed(_id) == 0

\* init_worker(_id): np.random.seed(_id)
WorkerSeed(_id) == _id

\* The k-th number of the stream of a generator seeded with seed.
Drawn(seed, k) == <<seed, k>>

InitWorkers ==
    /\ Unbuilt
    /\ env = {}
    /\ batch = NoBatch
    /\ sampled = NoSample
    /\ collated = NoCollate
    /\ workers = [w \in WorkerIds |-> [started |-> FALSE, seed |-> ParentSeed, drawn |-> <<>>]]
    /\ Elsewhere

\* A worker process starts: the loader calls the hook with the worker's id.
StartWorker(w) ==
    /\ ~workers[w].started
    /\ workers' = [workers EXCEPT ![w] = [started |-> TRUE, seed |-> WorkerSeed(w),
                                          drawn |-> <<>>]]
    /\ UNCHANGED <<dataset, env, batch, sampled, collated, elsewhere>>

\* A started worker draws the next number of its generator, for sampling or
\* for augmentation.
WorkerDraw(w) ==
    /\ workers[w].started
    /\ Len(workers[w].drawn) < MaxDraws
    /\ workers' = [workers EXCEPT ![w].drawn =
                        Append(@, Drawn(workers[w].seed, Len(workers[w].drawn) + 1))]
    /\ UNCHANGED <<dataset, env, batch, sampled, collated, elsewhere>>

NextWorkers == \E w \in WorkerIds : StartWorker(w) \/ WorkerDraw(w)

SpecWorkers == InitWorkers /\ [][NextWorkers]_vars

C19_LabelOfSameRow ==
    (Ready /\ last.err = "none") =>
        LET row == meta[last.item + 1]
        IN /\ last.index = row.index
           /\ last.label_meta = last.index
           /\ last.label = row.template_id
           /\ last.label \in Lids

\* The second row of a table whose index labels are not positions, of class 1.
C19_Witness ==
    /\ Ready
    /\ last.err = "none"
    /\ last.item = 1
    /\ last.index # last.item
    /\ last.label = 1
    /\ last.label_meta = last.index

\* The arguments pass the checks that open __init__.
ArgsAccepted == ~CutOutside /\ ~SettingOutside

\* C20: for any keep in [0, 1), keep = 0 included, construction completes
\* even when round(class_size * keep) is 0 for a class: such a class is
\* absent from the retained table, and every other class keeps its first
\* round(class_size * keep) rows, in order.
C20_ZeroQuotaClassesDropped ==
    (phase # "new" /\ FractionKeep /\ ArgsAccepted) =>
        /\ Ready
        /\ \A lid \in ClassesOf(loaded) :
            /\ Quota(lid) = 0 => ClassPositions(meta, lid) = {}
            /\ Quota(lid) > 0 =>
                    SelectRows(meta, lid) = SubSeq(SelectRows(loaded, lid), 1, Quota(lid))
        /\ args.keep.num = 0 => meta = <<>>

\* With keep above 0, the first class of the table rounds to no row and the
\* second class keeps one.
C20_Witness ==
    /\ Ready /\ FractionKeep
    /\ args.keep.num > 0
    /\ Len(loaded) >= 2
    /\ Quota(loaded[1].lid) = 0
    /\ \E lid \in ClassesOf(loaded) :
            /\ Quota(lid) > 0
            /\ ClassPositions(meta, lid) # {}


(***************************************************************************)
(* _gather_dist_stats: the statistics of the pixels of a set of videos.    *)
(* Floats are modelled by exact fractions, [n |-> numerator, d |->         *)
(* denominator] in lowest terms with d > 0.                                *)
(***************************************************************************)
\* The batches folded in a run, and the pixels of a batch.
MaxFolds == 3
MaxObs == 2

\* skvideo pixels are bytes; line 15 divides them by 255.
Scale == 255
Channels == 1..3
\* The pixels a video is made of: black, magenta, yellow.
PaletteSeq == << <<0, 0, 0>>, <<Scale, 0, Scale>>, <<Scale, Scale, 0>> >>
Palette == {PaletteSeq[i] : i \in 1..Len(PaletteSeq)}

RECURSIVE GCD(_, _)
GCD(a, b) == IF b = 0 THEN a ELSE GCD(b, a % b)

Frac(n, d) ==
    LET abs(x) == IF x < 0 THEN -x ELSE x
        g == GCD(abs(n), abs(d))
        sign == IF d < 0 THEN -1 ELSE 1
    IN [n |-> sign * (n \div g), d |-> sign * (d \div g)]
FAdd(x, y) == Frac(x.n * y.d + y.n * x.d, x.d * y.d)
FSub(x, y) == Frac(x.n * y.d - y.n * x.d, x.d * y.d)
FMul(x, y) == Frac(x.n * y.n, x.d * y.d)
FDiv(x, y) == Frac(x.n * y.d, x.d * y.n)

RECURSIVE FSum(_)
FSum(xs) == IF xs = <<>> THEN Frac(0, 1) ELSE FAdd(Head(xs), FSum(Tail(xs)))

\* videos.mean(axis=0) and videos.var(axis=0) of one channel's column.
MeanOf(column) == FDiv(FSum(column), Frac(Len(column), 1))
VarOf(column) ==
    LET mu == MeanOf(column)
    IN MeanOf([k \in 1..Len(column) |-> FMul(FSub(column[k], mu), FSub(column[k], mu))])

\* _compute_batch_stats: the pixels of the batch's videos, scaled to [0, 1]
\* and stacked, give (mean, var, obs) over the channels.
ComputeBatchStats(pixels) ==
    LET column(c) == [k \in 1..Len(pixels) |-> Frac(pixels[k][c], Scale)]
    IN [mean |-> [c \in Channels |-> MeanOf(column(c))],
        var |-> [c \in Channels |-> VarOf(column(c))],
        obs |-> Len(pixels)]

\* The variance of two pooled groups, from the mean each group had.
PoolVar(var, mean, total_obs, cur_var, cur_mean, obs) ==
    LET sum == total_obs + obs
    IN FAdd(FAdd(FMul(Frac(total_obs, sum), var), FMul(Frac(obs, sum), cur_var)),
            FMul(Frac(total_obs * obs, sum * sum), FMul(FSub(mean, cur_mean), FSub(mean, cur_mean))))

\* Lines 54-59: one pass of the loop of main.  Line 55 replaces mean, and
\* lines 56-57 then read the mean it has replaced.
Fold(st, cur) ==
    LET sum == st.total_obs + cur.obs
        mean == [c \in Channels |->
                    FAdd(FMul(Frac(st.total_obs, sum), st.mean[c]),
                         FMul(Frac(cur.obs, sum), cur.mean[c]))]
        var == [c \in Channels |->
                    PoolVar(st.var[c], mean[c], st.total_obs, cur.var[c], cur.mean[c], cur.obs)]
    IN [st EXCEPT !.mean = mean, !.var = var, !.std_squared = var, !.total_obs = sum]

\* Lines 48-51: main before its loop.
\* Nothing of the dataset or around it has run.
DatasetIdle ==
    /\ Unbuilt
    /\ env = {}
    /\ batch = NoBatch
    /\ sampled = NoSample
    /\ collated = NoCollate
    /\ workers = NoWorkers

InitStats ==
    /\ DatasetIdle
    /\ logger = NoLogger
    /\ unit = NoUnit
    /\ stats = [folds |-> 0,
                mean |-> [c \in Channels |-> Frac(0, 1)],
                var |-> [c \in Channels |-> Frac(0, 1)],
                std_squared |-> [c \in Channels |-> Frac(0, 1)],
                total_obs |-> 0,
                seen |-> [colour \in Palette |-> 0]]

\* The loop takes the statistics of one more batch.
FoldBatch(pixels) ==
    /\ stats.folds >= 0
    /\ stats.folds < MaxFolds
    /\ stats' = [Fold(stats, ComputeBatchStats(pixels)) EXCEPT
                    !.folds = stats.folds + 1,
                    !.seen = [colour \in Palette |->
                                stats.seen[colour]
                                    + Cardinality({k \in 1..Len(pixels) : pixels[k] = colour})]]
    /\ UNCHANGED <<dataset, around, logger, unit>>

NextStats == \E n \in 1..MaxObs : \E pixels \in [1..n -> Palette] : FoldBatch(pixels)

SpecStats == InitStats /\ [][NextStats]_vars

\* The observations of a channel in all the batches folded so far.
PooledColumn(c) ==
    LET copies(i) == [k \in 1..stats.seen[PaletteSeq[i]] |-> Frac(PaletteSeq[i][c], Scale)]
    IN copies(1) \o copies(2) \o copies(3)

\* C21: after folding in any sequence of per-batch (mean, var, obs) triples,
\* the running mean and variance of every channel equal the mean and the
\* population variance of the pooled observations of all batches processed
\* so far, and total_obs equals the sum of their observation counts.
C21_PooledStatistics ==
    stats.folds >= 1 =>
        /\ stats.total_obs = Len(PooledColumn(1))
        /\ \A c \in Channels :
            /\ stats.mean[c] = MeanOf(PooledColumn(c))
            /\ stats.var[c] = VarOf(PooledColumn(c))


(***************************************************************************)
(* logger.py: the ExperimentLogger.                                        *)
(***************************************************************************)
\* The lines a run may write and the handlers it may attach.
MaxLines == 9
MaxHandlers == 10

\* The fields of the options record that print_options lists.
OptionFields == 2
\* The handlers init_handlers attaches, and those it adds when debugging.
Handlers == 4
DebugHandlers == 6
\* The lines init_log writes after the options when debugging.
DebugLines == 5

\* A decorator that lets every process in.
AnyProc(lg, ran, skipped) == ran

\* _Decorator.main_proc_only: outside the main process the wrapped function
\* is not called and None is returned.
MainProcOnly(lg, ran, skipped) == IF ~lg.main_proc THEN skipped ELSE ran

\* An attribute is read off self.pbar or self.tb_logger.
Deref(lg, object, then) ==
    IF object = "None" THEN [lg EXCEPT !.err = "AttributeError"] ELSE then

InitPbar(lg) == MainProcOnly(lg, "ProgressBar", "None")
InitTbLogger(lg) == MainProcOnly(lg, "TensorboardLogger", "None")

\* __init__(opts, main_proc, train_metrics, dev_metrics), the metric names
\* being names of specs.maps.Metrics.
NewLogger(debug, main_proc) ==
    LET lg == [built |-> TRUE, main_proc |-> main_proc, debug |-> debug, op |-> "__init__",
               pbar |-> "None", tb_logger |-> "None", metrics |-> {}, files |-> {},
               lines |-> 0, handlers |-> 0, pbar_attached |-> FALSE, hparams |-> FALSE,
               closed |-> FALSE, err |-> "none"]
        tb == InitTbLogger(lg)
    IN [lg EXCEPT !.pbar = InitPbar(lg),
                  !.tb_logger = tb,
                  !.files = IF tb = "None" THEN {} ELSE {<<".", "logs">>}]

\* log(msg): tqdm.tqdm.write(msg)
Log(lg) == MainProcOnly(lg, [lg EXCEPT !.lines = @ + 1], lg)

RECURSIVE LogTimes(_, _)
LogTimes(lg, n) == IF n = 0 THEN lg ELSE LogTimes(Log(lg), n - 1)

\* print_options: two heading lines, then one line for each field.
PrintOptions(lg) == LogTimes(lg, 2 + OptionFields)

AttachPbar(lg) ==
    MainProcOnly(lg, Deref(lg, lg.pbar, [lg EXCEPT !.pbar_attached = TRUE]), lg)

InitHandlers(lg) ==
    MainProcOnly(lg,
        Deref(lg, lg.tb_logger,
              [lg EXCEPT !.handlers = @ + Handlers + (IF lg.debug THEN DebugHandlers ELSE 0)]),
        lg)

InitLog(lg) ==
    MainProcOnly(lg,
        IF lg.debug THEN LogTimes(PrintOptions(lg), DebugLines) ELSE PrintOptions(lg),
        lg)

LogMetrics(lg) == MainProcOnly(lg, Log(lg), lg)
LogDevMetrics(lg) == MainProcOnly(lg, Log(lg), lg)

PersistRunOpts(lg) == MainProcOnly(lg, [lg EXCEPT !.files = @ \cup {<<".", "run.json">>}], lg)

PersistMetrics(lg, metrics, split) ==
    MainProcOnly(lg,
        [lg EXCEPT !.metrics = @ \cup metrics, !.files = @ \cup {<<split, "metrics.json">>}],
        lg)

PersistOuts(lg, outs, split) ==
    MainProcOnly(lg,
        [lg EXCEPT !.files = @ \cup {<<split, name>> : name \in outs}
                                \cup {<<split, "tsne_ids.npy">>}],
        lg)

PersistExperiment(lg) ==
    MainProcOnly(lg, Deref(lg, lg.tb_logger, [lg EXCEPT !.hparams = TRUE]), lg)

Close(lg) ==
    MainProcOnly(lg,
        Deref(lg, lg.pbar, Deref(lg, lg.tb_logger, [lg EXCEPT !.closed = TRUE])),
        lg)

InitLogger ==
    /\ DatasetIdle
    /\ stats = NoStats
    /\ unit = NoUnit
    /\ logger = NoLogger

\* The training script constructs the logger, in the main process or not.
DoNewLogger ==
    /\ ~logger.built
    /\ \E debug \in BOOLEAN, main_proc \in BOOLEAN : logger' = NewLogger(debug, main_proc)
    /\ UNCHANGED <<dataset, around, stats, unit>>

\* A call of an operation of the logger that leaves it as after.
Call(op, after) ==
    /\ logger.built
    /\ after.lines <= MaxLines
    /\ after.handlers <= MaxHandlers
    /\ logger' = [after EXCEPT !.op = op]
    /\ UNCHANGED <<dataset, around, stats, unit>>

DoAttachPbar == logger.built /\ Call("attach_pbar", AttachPbar(logger))
DoInitHandlers == logger.built /\ Call("init_handlers", InitHandlers(logger))
DoInitLog == logger.built /\ Call("init_log", InitLog(logger))
DoPrintOptions == logger.built /\ Call("print_options", PrintOptions(logger))
DoLog == logger.built /\ Call("log", Log(logger))
DoLogMetrics == logger.built /\ Call("log_metrics", LogMetrics(logger))
DoLogDevMetrics == logger.built /\ Call("log_dev_metrics", LogDevMetrics(logger))
DoPersistRunOpts == logger.built /\ Call("persist_run_opts", PersistRunOpts(logger))
DoPersistMetrics ==
    /\ logger.built
    /\ \E metrics \in {{}, {"loss"}} :
            Call("persist_metrics", PersistMetrics(logger, metrics, "dev"))
DoPersistOuts ==
    /\ logger.built
    /\ \E outs \in {{}, {"latents.npy"}} :
            Call("persist_outs", PersistOuts(logger, outs, "dev"))
DoPersistExperiment == logger.built /\ Call("persist_experiment", PersistExperiment(logger))
DoClose == logger.built /\ Call("close", Close(logger))

NextLogger ==
    \/ DoNewLogger
    \/ DoAttachPbar
    \/ DoInitHandlers
    \/ DoInitLog
    \/ DoPrintOptions
    \/ DoLog
    \/ DoLogMetrics
    \/ DoLogDevMetrics
    \/ DoPersistRunOpts
    \/ DoPersistMetrics
    \/ DoPersistOuts
    \/ DoPersistExperiment
    \/ DoClose

SpecLogger == InitLogger /\ [][NextLogger]_vars

\* C22: for a logger constructed with main_proc false, after any sequence of
\* calls pbar and tb_logger are None, the metrics dict is empty, and every
\* operation, the undecorated print_options included, has returned without
\* writing a file, emitting output or dereferencing None.
C22_SilentOutsideMainProc ==
    (logger.built /\ ~logger.main_proc) =>
        /\ logger.pbar = "None"
        /\ logger.tb_logger = "None"
        /\ logger.metrics = {}
        /\ logger.files = {}
        /\ logger.lines = 0
        /\ logger.err = "none"
        /\ logger.handlers = 0
        /\ ~logger.pbar_attached
        /\ ~logger.hparams
        /\ ~logger.closed

\* Outside the main process, with debug on, print_options has just returned.
C22_Witness ==
    /\ logger.built
    /\ ~logger.main_proc
    /\ logger.debug
    /\ logger.op = "print_options"
    /\ logger.lines = 0


(***************************************************************************)
(* blocks.py: the construction of a Unit3D.                                *)
(***************************************************************************)
\* The options a Unit3D is constructed with.
Paddings == {"SAME", "VALID", "TEMPORAL_VALID", "FULL"}
KernelSizes == {<<1, 1, 1>>, <<3, 3, 3>>, <<3, 7, 7>>, <<7, 7, 7>>}
Strides == {<<1, 1, 1>>, <<1, 2, 2>>, <<2, 2, 2>>}
Unit3DOptions ==
    [in_channels : {3}, out_channels : {64}, kernel_size : KernelSizes, stride : Strides,
     padding : Paddings, use_bias : BOOLEAN, use_bn : BOOLEAN, activation : {"relu", "none"}]

\* The padding values line 39 lets through.
DeclaredPaddings == {"SAME", "VALID", "TEMPORAL_VALID"}

\* helpers.get_padding_shape(kernel_size, stride): before and after each
\* dimension, height and width first, depth last.
GetPaddingShape(kernel_size, stride) ==
    LET pad_along(i) == IF kernel_size[i] > stride[i] THEN kernel_size[i] - stride[i] ELSE 0
        pad_top(i) == pad_along(i) \div 2
        pad_bottom(i) == pad_along(i) - pad_top(i)
    IN <<pad_top(2), pad_bottom(2), pad_top(3), pad_bottom(3), pad_top(1), pad_bottom(1)>>

\* helpers.simplify_padding(padding_shape): whether all six paddings are
\* one number, and the first of them.
SimplifyPadding(padding_shape) ==
    [simplify_pad |-> \A i \in 1..Len(padding_shape) : padding_shape[i] = padding_shape[1],
     pad_size |-> padding_shape[1]]

\* nn.Conv3d(in_channels, out_channels, kernel_size, stride, padding, bias)
Conv3d(opts, padding) ==
    [in_channels |-> opts.in_channels, out_channels |-> opts.out_channels,
     kernel_size |-> opts.kernel_size, stride |-> opts.stride, padding |-> padding,
     bias |-> opts.use_bias]
NoConv3d == Conv3d([in_channels |-> 0, out_channels |-> 0, kernel_size |-> <<>>,
                    stride |-> <<>>, use_bias |-> FALSE], -1)

\* Unit3D.__init__(opts): the layers of the module, or the error raised.
\* pad is <<>> for None.
NewUnit3D(opts) ==
    LET blank == [done |-> TRUE, opts |-> opts, err |-> "none", pad |-> <<>>,
                  conv3d |-> NoConv3d, batch3d |-> FALSE, activation |-> FALSE]
        padding_shape == GetPaddingShape(opts.kernel_size, opts.stride)
        simple == SimplifyPadding(padding_shape)
        tail(u) == [u EXCEPT !.batch3d = opts.use_bn, !.activation = (opts.activation = "relu")]
    IN IF opts.padding \notin DeclaredPaddings
       THEN [blank EXCEPT !.err = "ValueError"]
       ELSE IF opts.padding = "SAME"
       THEN IF simple.simplify_pad
            THEN tail([blank EXCEPT !.conv3d = Conv3d(opts, simple.pad_size)])
            ELSE tail([blank EXCEPT !.pad = padding_shape, !.conv3d = Conv3d(opts, 0)])
       ELSE IF opts.padding = "VALID"
       THEN tail([blank EXCEPT !.conv3d = Conv3d(opts, 0)])
       ELSE [blank EXCEPT !.err = "ValueError"]

InitUnit ==
    /\ DatasetIdle
    /\ stats = NoStats
    /\ logger = NoLogger
    /\ unit = NoUnit

\* A model constructs a Unit3D with any options.
DoNewUnit3D ==
    /\ ~unit.done
    /\ \E opts \in Unit3DOptions : unit' = NewUnit3D(opts)
    /\ UNCHANGED <<dataset, around, stats, logger>>

SpecUnit == InitUnit /\ [][DoNewUnit3D]_vars

\* A layer has been built.
LayerBuilt ==
    \/ unit.conv3d # NoConv3d
    \/ unit.pad # <<>>
    \/ unit.batch3d
    \/ unit.activation

\* C23: for each padding in {SAME, VALID, TEMPORAL_VALID} construction
\* builds a conv3d layer and raises no ValueError; for any other padding a
\* ValueError is raised before any layer is built.
C23_DeclaredPaddingsBuild ==
    unit.done =>
        /\ unit.opts.padding \in DeclaredPaddings =>
                unit.err = "none" /\ unit.conv3d # NoConv3d
        /\ unit.opts.padding \notin DeclaredPaddings =>
                unit.err = "ValueError" /\ ~LayerBuilt

====
